---------------------------- MODULE Spec2Model ----------------------------
(***************************************************************************)
(* LangGraph document drafter: the two programs of the repository,         *)
(*   multi  - src/multi_agent_drafter.py (supervisor, rag_agent,           *)
(*            drafting_agent, their tool stages, run_multi_agent_drafter)  *)
(*   single - src/drafter.py (agent, tools, should_continue,               *)
(*            run_document_agent)                                          *)
(* Text is a sequence of one-character strings, so that lower(),           *)
(* "in", endswith() and the f-strings are computed as Python computes them.*)
(***************************************************************************)
EXTENDS Naturals, Sequences, FiniteSets

----------------------------------------------------------------------------
(* Literals of the source, as character sequences *)

\* 'saved'
STR_saved ==
    <<"s","a","v","e","d">>
\* 'document'
STR_document ==
    <<"d","o","c","u","m","e","n","t">>
\* '.txt'
STR_txt ==
    <<".","t","x","t">>
\* 'drafts'
STR_drafts ==
    <<"d","r","a","f","t","s">>
\* '/'
STR_sep ==
    <<"/">>
\* 'Document saved to '
STR_DocumentSavedTo ==
    <<"D","o","c","u","m","e","n","t"," ","s","a","v","e","d"," ","t","o"," ">>
\* 'Error: '
STR_Error ==
    <<"E","r","r","o","r",":"," ">>
\* 'Error saving document: '
STR_ErrorSavingDocument ==
    <<"E","r","r","o","r"," ","s","a","v","i","n","g"," ","d","o","c","u","m","e","n","t",":"," ">>
\* 'Document updated: '
STR_DocumentUpdated ==
    <<"D","o","c","u","m","e","n","t"," ","u","p","d","a","t","e","d",":"," ">>
\* '...'
STR_Ellipsis ==
    <<".",".",".">>
\* 'Document updated with: '
STR_DocumentUpdatedWith ==
    <<"D","o","c","u","m","e","n","t"," ","u","p","d","a","t","e","d"," ","w","i","t","h",":"," ">>
\* 'No knowledge base available.'
STR_NoKnowledgeBase ==
    <<"N","o"," ","k","n","o","w","l","e","d","g","e"," ","b","a","s","e"," ","a","v","a","i","l","a","b","l","e",".">>
\* '<newline><newline>'
STR_BlankLine ==
    <<"\n","\n">>
\* "I'm ready to start drafting the document."
STR_Ready ==
    <<"I","'","m"," ","r","e","a","d","y"," ","t","o"," ","s","t","a","r","t"," ","d","r","a","f","t","i","n","g"," ","t","h","e"," ","d","o","c","u","m","e","n","t",".">>
\* ' '
STR_InitialDocument ==
    <<" ">>
\* '[Errno 13] Permission denied: '
STR_EACCES ==
    <<"[","E","r","r","n","o"," ","1","3","]"," ","P","e","r","m","i","s","s","i","o","n"," ","d","e","n","i","e","d",":"," ">>
\* '[Errno 28] No space left on device'
STR_ENOSPC ==
    <<"[","E","r","r","n","o"," ","2","8","]"," ","N","o"," ","s","p","a","c","e"," ","l","e","f","t"," ","o","n"," ","d","e","v","i","c","e">>
\* "FileExistsError(17, 'File exists')"
STR_FileExistsError ==
    <<"F","i","l","e","E","x","i","s","t","s","E","r","r","o","r","(","1","7",","," ","'","F","i","l","e"," ","e","x","i","s","t","s","'",")">>
\* 'Error: '
STR_ToolErrorPrefix ==
    <<"E","r","r","o","r",":"," ">>
\* '<newline> Please fix your mistakes.'
STR_ToolErrorSuffix ==
    <<"\n"," ","P","l","e","a","s","e"," ","f","i","x"," ","y","o","u","r"," ","m","i","s","t","a","k","e","s",".">>
\* "'"
STR_Quote ==
    <<"'">>

\* the system prompt of rag_agent
STR_RagPrompt ==
    <<"\n"," "," "," "," ","Y","o","u"," ","a","r","e"," ","a"," ","r","e","s","e","a","r","c","h"," ","a","s","s","i","s","t","a","n","t","."," ","Y","o","u","r"," ","j","o","b"," ","i","s"," ","t","o"," ","s","e","a","r","c","h"," ","t","h","e"," ","k","n","o","w","l","e","d","g","e"," ","b","a","s","e"," ","(","P","D","F","s",")"," ","\n"," "," "," "," ","f","o","r"," ","i","n","f","o","r","m","a","t","i","o","n"," ","a","b","o","u","t"," ","w","r","i","t","i","n","g"," ","s","t","y","l","e",","," ","f","o","r","m","a","t","t","i","n","g",","," ","e","t","i","q","u","e","t","t","e",","," ","o","r"," ","g","u","i","d","e","l","i","n","e","s",".","\n"," "," "," "," ","W","h","e","n"," ","a","s","k","e","d"," ","a"," ","q","u","e","s","t","i","o","n",","," ","s","e","a","r","c","h"," ","t","h","e"," ","k","n","o","w","l","e","d","g","e"," ","b","a","s","e"," ","a","n","d"," ","r","e","t","u","r","n"," ","r","e","l","e","v","a","n","t"," ","i","n","f","o","r","m","a","t","i","o","n",".","\n"," "," "," "," ">>
\* the system prompt of drafting_agent up to {document_content}
STR_DraftingPromptHead ==
    <<"\n"," "," "," "," ","Y","o","u"," ","a","r","e"," ","a"," ","d","o","c","u","m","e","n","t"," ","w","r","i","t","e","r","."," ","Y","o","u"," ","c","a","n"," ","u","p","d","a","t","e"," ","a","n","d"," ","s","a","v","e"," ","d","o","c","u","m","e","n","t","s",".","\n"," "," "," "," ","C","u","r","r","e","n","t"," ","d","o","c","u","m","e","n","t"," ","c","o","n","t","e","n","t",":"," ">>
\* the system prompt of drafting_agent after {document_content}
STR_DraftingPromptTail ==
    <<"\n"," "," "," "," ","U","s","e"," ","t","h","e"," ","i","n","f","o","r","m","a","t","i","o","n"," ","p","r","o","v","i","d","e","d"," ","t","o"," ","w","r","i","t","e"," ","h","i","g","h","-","q","u","a","l","i","t","y"," ","d","o","c","u","m","e","n","t","s",".","\n"," "," "," "," ">>
\* the system prompt of drafter.agent up to {document_content}
STR_AgentPromptHead ==
    <<"\n"," "," "," "," ","Y","o","u"," ","a","r","e"," ","a"," ","h","e","l","p","f","u","l"," ","a","s","s","i","s","t","a","n","t"," ","t","h","a","t"," ","c","a","n"," ","u","p","d","a","t","e"," ","a"," ","d","o","c","u","m","e","n","t"," ","w","i","t","h"," ","n","e","w"," ","c","o","n","t","e","n","t",".","\n"," "," "," "," ","Y","o","u"," ","c","a","n"," ","u","s","e"," ","t","h","e"," ","f","o","l","l","o","w","i","n","g"," ","t","o","o","l","s"," ","t","o"," ","u","p","d","a","t","e"," ","t","h","e"," ","d","o","c","u","m","e","n","t",":","\n"," "," "," "," ","-"," ","u","p","d","a","t","e","_","d","o","c","u","m","e","n","t",":"," ","U","p","d","a","t","e"," ","t","h","e"," ","d","o","c","u","m","e","n","t"," ","c","o","n","t","e","n","t"," ","w","i","t","h"," ","t","h","e"," ","n","e","w"," ","c","o","n","t","e","n","t",".","\n"," "," "," "," ","-"," ","s","a","v","e","_","d","o","c","u","m","e","n","t",":"," ","S","a","v","e"," ","t","h","e"," ","c","u","r","r","e","n","t"," ","d","o","c","u","m","e","n","t"," ","t","o"," ","a"," ","t","e","x","t"," ","f","i","l","e"," ","a","n","d"," ","f","i","n","i","s","h"," ","t","h","e"," ","p","r","o","c","e","s","s",".","\n"," "," "," "," ","M","a","k","e"," ","s","u","r","e"," ","t","o"," ","a","l","w","a","y","s"," ","s","h","o","w"," ","t","h","e"," ","c","u","r","r","e","n","t"," ","d","o","c","u","m","e","n","t"," ","s","t","a","t","e"," ","a","f","t","e","r"," ","m","o","d","i","f","i","c","a","t","i","o","n","s",".","\n","\n"," "," "," "," ","T","h","e"," ","c","u","r","r","e","n","t"," ","d","o","c","u","m","e","n","t"," ","c","o","n","t","e","n","t"," ","i","s",":"," ">>
\* the system prompt of drafter.agent after {document_content}
STR_AgentPromptTail ==
    <<"\n"," "," "," "," ">>

\* the keyword list of supervisor: search, find, lookup, what, how, guideline, rule
KEYWORDS ==
    << <<"s","e","a","r","c","h">>,
       <<"f","i","n","d">>,
       <<"l","o","o","k","u","p">>,
       <<"w","h","a","t">>,
       <<"h","o","w">>,
       <<"g","u","i","d","e","l","i","n","e">>,
       <<"r","u","l","e">> >>

----------------------------------------------------------------------------
(* Bounds of the model *)

\* tool-call requests carried by one assistant message
MaxToolCalls == 1
\* supersteps one graph run may take before langgraph gives up
\* (GraphRecursionError; the library's default is 25, scaled down here)
RecursionLimit == 4
\* length of the histories handed to the router on its own
MaxHistory == 3
\* length of the sequences of tool calls made one after the other
MaxCalls == 3

\* update_document echoes content[:100]
EchoLimit == 100
\* the recursion limit of app.stream when no config is passed
DefaultRecursionLimit == 25

----------------------------------------------------------------------------
(* Python's string operations *)

UPPERCASE ==
    <<"A","B","C","D","E","F","G","H","I","J","K","L","M",
      "N","O","P","Q","R","S","T","U","V","W","X","Y","Z">>
LOWERCASE ==
    <<"a","b","c","d","e","f","g","h","i","j","k","l","m",
      "n","o","p","q","r","s","t","u","v","w","x","y","z">>

\* str.lower() on one character
lower_char(c) ==
    IF \E i \in 1..Len(UPPERCASE) : UPPERCASE[i] = c
    THEN LOWERCASE[CHOOSE i \in 1..Len(UPPERCASE) : UPPERCASE[i] = c]
    ELSE c

\* str.lower()
lower(s) == [i \in 1..Len(s) |-> lower_char(s[i])]

\* sub in s
contains(sub, s) ==
    \E i \in 0..(Len(s) - Len(sub)) :
        \A k \in 1..Len(sub) : s[i + k] = sub[k]

\* s.endswith(suffix)
endswith(s, suffix) ==
    /\ Len(s) >= Len(suffix)
    /\ \A k \in 1..Len(suffix) : s[Len(s) - Len(suffix) + k] = suffix[k]

\* s.startswith(prefix)
startswith(s, prefix) ==
    /\ Len(s) >= Len(prefix)
    /\ \A k \in 1..Len(prefix) : s[k] = prefix[k]

\* s[:n]
slice_to(s, n) == IF Len(s) <= n THEN s ELSE SubSeq(s, 1, n)

\* os.path.join(a, b): an absolute b discards a
os_path_join(a, b) ==
    IF b # <<>> /\ b[1] = "/" THEN b
    ELSE IF a = <<>> \/ a[Len(a)] = "/" THEN a \o b
    ELSE a \o STR_sep \o b

\* sep.join(parts)
RECURSIVE join(_, _)
join(sep, parts) ==
    IF parts = <<>> THEN <<>>
    ELSE IF Len(parts) = 1 THEN parts[1]
    ELSE parts[1] \o sep \o join(sep, Tail(parts))

\* str(e) of the OSError that open(filepath, "w") raises
str_open_error(filepath) == STR_EACCES \o STR_Quote \o filepath \o STR_Quote

----------------------------------------------------------------------------
(* Messages *)

HumanMessage(content) ==
    [type |-> "human", content |-> content, tool_calls |-> <<>>, name |-> "", id |-> 0]
AIMessage(content, tool_calls) ==
    [type |-> "ai", content |-> content, tool_calls |-> tool_calls, name |-> "", id |-> 0]
ToolMessage(content, name) ==
    [type |-> "tool", content |-> content, tool_calls |-> <<>>, name |-> name, id |-> 0]
SystemMessage(content) ==
    [type |-> "system", content |-> content, tool_calls |-> <<>>, name |-> "", id |-> 0]

\* add_messages with the reducer left out: the channel takes what a node returns
overwrite_messages(left, right) == right

\* add_messages putting what a node returns in front of the list
prepend_messages(left, right) == right \o left

\* The reducer of AgentState.messages.

\* one message merged into the list: it replaces the entry that has its id, or
\* is appended (and given an id if it has none)
merge_message(left, m) ==
    LET hit == {i \in 1..Len(left) : m.id # 0 /\ left[i].id = m.id}
    IN  IF hit # {}
        THEN [left EXCEPT ![CHOOSE i \in hit : TRUE] = m]
        ELSE Append(left, [m EXCEPT !.id = IF m.id = 0 THEN Len(left) + 1 ELSE m.id])

\* the messages of right merged one after the other; merged is the list after
\* the first of them
RECURSIVE add_messages(_, _)
add_messages(left, right) ==
    IF right = <<>> THEN left
    ELSE CHOOSE result \in {add_messages(merged, Tail(right)) :
                               merged \in {merge_message(left, Head(right))}} : TRUE

----------------------------------------------------------------------------
(* Tools.  A tool call yields [raised, value, doc, files, drafts]: whether it *)
(* raised to its caller, the string it returned (or repr of what it raised),  *)
(* and document_content, the files and the drafts directory after it.         *)

Faults == {"none", "makedirs", "open", "write"}

\* the faults a tool stage of a graph run meets
StageFaults == {"none", "makedirs", "open"}

\* os.makedirs(drafts, exist_ok=True) cannot fail on a directory that exists
possible_faults(faults, drafts_exists) ==
    IF drafts_exists THEN faults \ {"makedirs"} ELSE faults

\* files with path holding content
write_file(files, path, content) ==
    [p \in DOMAIN files \cup {path} |-> IF p = path THEN content ELSE files[p]]

\* search_knowledge_base without the test for a missing retriever
search_unguarded(retriever, query, docs) == join(STR_BlankLine, docs)

\* multi_agent_drafter.search_knowledge_base
search_knowledge_base(retriever, query, docs) ==
    IF retriever = "None" THEN STR_NoKnowledgeBase
    ELSE join(STR_BlankLine, docs)

\* update_document refusing an empty content
update_document_rejects_empty(content, echo) ==
    [doc |-> IF content = <<>> THEN STR_InitialDocument ELSE content,
     value |-> STR_DocumentUpdated \o slice_to(echo, EchoLimit) \o STR_Ellipsis]

\* multi_agent_drafter.update_document; echo is what the second read of the
\* global document_content sees
update_document(content, echo) ==
    [doc |-> content,
     value |-> STR_DocumentUpdated \o slice_to(echo, EchoLimit) \o STR_Ellipsis]

\* drafter.update_document
drafter_update_document(content, echo) ==
    [doc |-> content,
     value |-> STR_DocumentUpdatedWith \o echo]

\* filename normalisation of save_document
normalize(filename) ==
    IF ~endswith(filename, STR_txt) THEN filename \o STR_txt ELSE filename

\* the path save_document writes to
save_path(filename) == os_path_join(STR_drafts, normalize(filename))

\* save_document emptying the document once it is written
save_document_clears(filename, doc, files, drafts, fault) ==
    LET filepath == save_path(filename)
    IN  IF fault = "makedirs"
        THEN [raised |-> TRUE, value |-> STR_FileExistsError,
              doc |-> doc, files |-> files, drafts |-> drafts]
        ELSE IF fault = "open"
        THEN [raised |-> FALSE, value |-> STR_Error \o str_open_error(filepath),
              doc |-> doc, files |-> files, drafts |-> TRUE]
        ELSE IF fault = "write"
        THEN [raised |-> FALSE, value |-> STR_Error \o STR_ENOSPC,
              doc |-> doc, files |-> write_file(files, filepath, <<>>), drafts |-> TRUE]
        ELSE [raised |-> FALSE, value |-> STR_DocumentSavedTo \o filepath,
              doc |-> <<>>, files |-> write_file(files, filepath, doc), drafts |-> TRUE]

\* multi_agent_drafter.save_document.  os.makedirs runs before the try block,
\* so its failure leaves the function as an exception; a failure of open is
\* caught with nothing written; a failure of f.write is caught after
\* open(filepath, "w") has truncated the file
save_document(filename, doc, files, drafts, fault) ==
    LET filepath == save_path(filename)
    IN  IF fault = "makedirs"
        THEN [raised |-> TRUE, value |-> STR_FileExistsError,
              doc |-> doc, files |-> files, drafts |-> drafts]
        ELSE IF fault = "open"
        THEN [raised |-> FALSE, value |-> STR_Error \o str_open_error(filepath),
              doc |-> doc, files |-> files, drafts |-> TRUE]
        ELSE IF fault = "write"
        THEN [raised |-> FALSE, value |-> STR_Error \o STR_ENOSPC,
              doc |-> doc, files |-> write_file(files, filepath, <<>>), drafts |-> TRUE]
        ELSE [raised |-> FALSE, value |-> STR_DocumentSavedTo \o filepath,
              doc |-> doc, files |-> write_file(files, filepath, doc), drafts |-> TRUE]

\* drafter.save_document: the same steps, with its own error prefix
drafter_save_document(filename, doc, files, drafts, fault) ==
    LET filepath == save_path(filename)
    IN  IF fault = "makedirs"
        THEN [raised |-> TRUE, value |-> STR_FileExistsError,
              doc |-> doc, files |-> files, drafts |-> drafts]
        ELSE IF fault = "open"
        THEN [raised |-> FALSE, value |-> STR_ErrorSavingDocument \o str_open_error(filepath),
              doc |-> doc, files |-> files, drafts |-> TRUE]
        ELSE IF fault = "write"
        THEN [raised |-> FALSE, value |-> STR_ErrorSavingDocument \o STR_ENOSPC,
              doc |-> doc, files |-> write_file(files, filepath, <<>>), drafts |-> TRUE]
        ELSE [raised |-> FALSE, value |-> STR_DocumentSavedTo \o filepath,
              doc |-> doc, files |-> write_file(files, filepath, doc), drafts |-> TRUE]

----------------------------------------------------------------------------
(* Routing *)

\* is_saved without .lower()
is_saved_case_sensitive(message) ==
    /\ message.type = "tool"
    /\ contains(STR_saved, message.content)
    /\ contains(STR_document, message.content)

\* the test of the reversed(messages) loops: a ToolMessage whose lower-cased
\* content holds "saved" and "document"
is_saved(message) ==
    /\ message.type = "tool"
    /\ contains(STR_saved, lower(message.content))
    /\ contains(STR_document, lower(message.content))

\* scan_reversed stopping at the most recent ToolMessage, hit or not
RECURSIVE scan_most_recent_tool(_, _)
scan_most_recent_tool(messages, i) ==
    IF i = 0 THEN FALSE
    ELSE IF messages[i].type = "tool"
         THEN /\ contains(STR_saved, lower(messages[i].content))
              /\ contains(STR_document, lower(messages[i].content))
    ELSE scan_most_recent_tool(messages, i - 1)

\* for message in reversed(messages): ... return at the first hit;
\* i is the index the loop has come to
RECURSIVE scan_reversed(_, _)
scan_reversed(messages, i) ==
    IF i = 0 THEN FALSE
    ELSE IF is_saved(messages[i]) THEN TRUE
    ELSE scan_reversed(messages, i - 1)

\* any_keyword with all() for any()
all_keywords(content) ==
    \A w \in 1..Len(KEYWORDS) : contains(KEYWORDS[w], content)

\* any(word in content for word in [...])
any_keyword(content) ==
    \E w \in 1..Len(KEYWORDS) : contains(KEYWORDS[w], content)

\* supervisor ending the run when nothing else applies
supervisor_ends_by_default(messages) ==
    IF messages = <<>> THEN "drafting_agent"
    ELSE IF scan_reversed(messages, Len(messages)) THEN "end"
    ELSE LET last_message == messages[Len(messages)]
         IN  IF last_message.type = "human"
             THEN IF any_keyword(lower(last_message.content))
                  THEN "rag_agent"
                  ELSE "drafting_agent"
             ELSE IF last_message.type = "tool"
             THEN "drafting_agent"
             ELSE "end"

\* supervisor handing a tool result back to the retrieval worker
supervisor_tool_to_rag(messages) ==
    IF messages = <<>> THEN "drafting_agent"
    ELSE IF scan_reversed(messages, Len(messages)) THEN "end"
    ELSE LET last_message == messages[Len(messages)]
         IN  IF last_message.type = "human"
             THEN IF any_keyword(lower(last_message.content))
                  THEN "rag_agent"
                  ELSE "drafting_agent"
             ELSE IF last_message.type = "tool"
             THEN "rag_agent"
             ELSE "drafting_agent"

\* supervisor routing on the first message of the history, not the last
supervisor_on_first_message(messages) ==
    IF messages = <<>> THEN "drafting_agent"
    ELSE IF scan_reversed(messages, Len(messages)) THEN "end"
    ELSE LET last_message == messages[1]
         IN  IF last_message.type = "human"
             THEN IF any_keyword(lower(last_message.content))
                  THEN "rag_agent"
                  ELSE "drafting_agent"
             ELSE IF last_message.type = "tool"
             THEN "drafting_agent"
             ELSE "drafting_agent"

\* supervisor handing the turn after an assistant message to the retrieval worker
supervisor_assistant_to_rag(messages) ==
    IF messages = <<>> THEN "drafting_agent"
    ELSE IF scan_reversed(messages, Len(messages)) THEN "end"
    ELSE LET last_message == messages[Len(messages)]
         IN  IF last_message.type = "human"
             THEN IF any_keyword(lower(last_message.content))
                  THEN "rag_agent"
                  ELSE "drafting_agent"
             ELSE IF last_message.type = "tool"
             THEN "drafting_agent"
             ELSE "rag_agent"

\* multi_agent_drafter.supervisor: the next_agent it returns
supervisor(messages) ==
    IF messages = <<>> THEN "drafting_agent"
    ELSE IF scan_reversed(messages, Len(messages)) THEN "end"
    ELSE LET last_message == messages[Len(messages)]
         IN  IF last_message.type = "human"
             THEN IF any_keyword(lower(last_message.content))
                  THEN "rag_agent"
                  ELSE "drafting_agent"
             ELSE IF last_message.type = "tool"
             THEN "drafting_agent"
             ELSE "drafting_agent"

\* drafter.should_continue: its own reversed(messages) loop
RECURSIVE drafter_scan_reversed(_, _)
drafter_scan_reversed(messages, i) ==
    IF i = 0 THEN FALSE
    ELSE IF is_saved(messages[i]) THEN TRUE
    ELSE drafter_scan_reversed(messages, i - 1)

\* drafter.should_continue
should_continue(messages) ==
    IF messages = <<>> THEN "continue"
    ELSE IF drafter_scan_reversed(messages, Len(messages)) THEN "end"
    ELSE "continue"

----------------------------------------------------------------------------
(* The inputs the environment (operator, model, retriever, filesystem) may give *)

\* what the operator types at input()
UserInputs ==
    { <<"d","r","a","f","t"," ","a"," ","m","e","m","o">>,
      <<"f","i","n","d"," ","t","i","p","s">> }

\* the text of an assistant message
AiTexts ==
    { <<"o","k">> }

\* content arguments of update_document
Contents ==
    { <<"H","i">>,
      <<"S","a","v","e","d">> }

\* filename arguments of save_document
Filenames ==
    { <<"m","e","m","o">>,
      <<"S","a","v","e","d","D","o","c","u","m","e","n","t">> }

\* what the operator types at the input() of drafter.agent
DrafterInputs ==
    { <<"g","o"," ","o","n">> }

\* query arguments of search_knowledge_base
Queries ==
    { <<"t","i","p","s">> }

\* the page_content lists retriever.invoke may return
Retrieved ==
    { <<>>,
      << <<"B","e"," ","b","r","i","e","f">>, <<"S","i","g","n"," ","o","f","f">> >> }

UpdateCalls == {[name |-> "update_document", arg |-> c] : c \in Contents}
SaveCalls == {[name |-> "save_document", arg |-> f] : f \in Filenames}
SearchCalls == {[name |-> "search_knowledge_base", arg |-> q] : q \in Queries}

\* rag_tools and drafting_tools (drafter.py: tools), as the calls a model bound
\* to them may request
rag_tools == SearchCalls
drafting_tools == UpdateCalls \cup SaveCalls

\* the tool_calls lists of one assistant message
CallLists(tools) == UNION {[1..n -> tools] : n \in 0..MaxToolCalls}

\* model.invoke(messages): one assistant message
Responses(tools) ==
    {AIMessage(c, tc) : c \in AiTexts, tc \in CallLists(tools)}

----------------------------------------------------------------------------
(* What a worker hands to its model *)

\* the SystemMessage of rag_agent
rag_system_prompt == SystemMessage(STR_RagPrompt)

\* the SystemMessage of drafting_agent, an f-string over document_content
drafting_system_prompt(document) ==
    SystemMessage(STR_DraftingPromptHead \o document \o STR_DraftingPromptTail)

\* drafter.agent's SystemMessage built once, from the document at import
agent_system_prompt_at_import(document) ==
    SystemMessage(STR_AgentPromptHead \o STR_InitialDocument \o STR_AgentPromptTail)

\* the SystemMessage of drafter.agent, an f-string over document_content
agent_system_prompt(document) ==
    SystemMessage(STR_AgentPromptHead \o document \o STR_AgentPromptTail)

\* messages = [system_prompt] + list(state["messages"])
worker_messages(at, document, messages) ==
    <<IF at = "rag_agent" THEN rag_system_prompt ELSE drafting_system_prompt(document)>>
        \o messages

\* all_messages = [system_prompt] + list(state["messages"]) + [user_message]
all_messages(document, messages, user_message) ==
    <<agent_system_prompt(document)>> \o messages \o <<user_message>>

----------------------------------------------------------------------------
(* The presentation layer.  A printed line is [kind, id, text]: what it is, *)
(* the id of the history entry it renders, and the text it shows.           *)

\* the lines multi_agent_drafter.print_messages writes for one message
message_lines(message) ==
    IF message.type = "human"
    THEN <<[kind |-> "USER", id |-> message.id, text |-> message.content]>>
    ELSE IF message.type = "ai"
    THEN (IF message.content # <<>>
          THEN <<[kind |-> "AI", id |-> message.id, text |-> message.content]>>
          ELSE <<>>)
         \o (IF message.tool_calls # <<>>
             THEN <<[kind |-> "Using tools", id |-> message.id,
                     text |-> [i \in 1..Len(message.tool_calls) |-> message.tool_calls[i].name]]>>
             ELSE <<>>)
    ELSE IF message.type = "tool"
    THEN <<[kind |-> "TOOL RESULT", id |-> message.id, text |-> message.content]>>
    ELSE <<>>

\* for message in messages[i - 1:]
RECURSIVE lines_from(_, _)
lines_from(messages, i) ==
    IF i > Len(messages) THEN <<>>
    ELSE message_lines(messages[i]) \o lines_from(messages, i + 1)

\* print_messages remembering nothing: every call prints the whole list
print_messages_all(messages, count, out) ==
    IF messages = <<>> THEN [printed |-> out, count |-> count]
    ELSE [printed |-> out \o lines_from(messages, 1), count |-> Len(messages)]

\* multi_agent_drafter.print_messages: out and _printed_message_count after it
print_messages(messages, count, out) ==
    IF messages = <<>> THEN [printed |-> out, count |-> count]
    ELSE [printed |-> out \o lines_from(messages, count + 1), count |-> Len(messages)]

\* the lines drafter.print_messages writes for one message
drafter_message_lines(message) ==
    IF message.type = "tool"
    THEN <<[kind |-> "TOOL RESULT", id |-> message.id, text |-> message.content]>>
    ELSE <<>>

\* for message in messages[-3:], i the index the loop has come to
RECURSIVE drafter_lines_from(_, _)
drafter_lines_from(messages, i) ==
    IF i > Len(messages) THEN <<>>
    ELSE drafter_message_lines(messages[i]) \o drafter_lines_from(messages, i + 1)

\* drafter.print_messages: the output after it
drafter_print_messages(messages, out) ==
    IF messages = <<>> THEN out
    ELSE out \o drafter_lines_from(messages, IF Len(messages) > 3 THEN Len(messages) - 2 ELSE 1)

----------------------------------------------------------------------------
(* State *)

VARIABLES
    program,           \* which program runs: "multi" or "single"
    retriever,         \* "None" when email_etiquette.pdf is absent at import
    document_content,  \* the global document_content
    files,             \* the filesystem: path -> content of each file
    drafts,            \* whether the drafts directory exists
    history,           \* the graph's messages channel
    next_agent,        \* AgentState.next_agent
    node,              \* the node the graph runs next
    driver,            \* where run_multi_agent_drafter / run_document_agent is
    state_messages,    \* state["messages"] of the driver
    steps,             \* supersteps taken by the running graph
    calls,             \* the tool calls of the last tool stage, in request order
    invoked,           \* the messages of the latest model.invoke
    printed,           \* the lines print_messages has written
    printed_message_count  \* the global _printed_message_count

vars == <<program, retriever, document_content, files, drafts, history,
          next_agent, node, driver, state_messages, steps, calls,
          invoked, printed, printed_message_count>>

----------------------------------------------------------------------------
(* The tool stage: ToolNode runs the tool calls of the last assistant message *)
(* on a thread pool and returns their ToolMessages in request order.          *)

NoCall ==
    [name |-> "", arg |-> <<>>, raised |-> FALSE, value |-> <<>>,
     doc_before |-> <<>>, doc_after |-> <<>>]

\* one tool call run on the state st = [doc, files, drafts, results]; later are
\* the calls that run after it, whose writes its own second read may see
run_one(prog, retr, call, later, st) ==
    IF call.name = "update_document"
    THEN {[raised |-> FALSE, value |-> u.value, doc |-> u.doc,
           files |-> st.files, drafts |-> st.drafts] :
            u \in {IF prog = "multi" THEN update_document(call.arg, echo)
                   ELSE drafter_update_document(call.arg, echo) :
                     echo \in {call.arg} \cup
                              {c.arg : c \in {l \in later : l.name = "update_document"}}}}
    ELSE IF call.name = "save_document"
    THEN {IF prog = "multi"
          THEN save_document(call.arg, st.doc, st.files, st.drafts, fault)
          ELSE drafter_save_document(call.arg, st.doc, st.files, st.drafts, fault) :
            fault \in possible_faults(StageFaults, st.drafts)}
    ELSE {[raised |-> FALSE, value |-> search_knowledge_base(retr, call.arg, docs),
           doc |-> st.doc, files |-> st.files, drafts |-> st.drafts] :
            docs \in IF retr = "None" THEN {<<>>} ELSE Retrieved}

\* the calls run one after the other in the given order
RECURSIVE run_in_order(_, _, _, _, _)
run_in_order(prog, retr, tool_calls, order, st) ==
    IF order = <<>> THEN {st}
    ELSE LET i == Head(order)
             later == {tool_calls[order[k]] : k \in 2..Len(order)}
         IN  UNION {
               run_in_order(prog, retr, tool_calls, Tail(order),
                   [doc |-> r.doc, files |-> r.files, drafts |-> r.drafts,
                    results |-> [st.results EXCEPT ![i] =
                        [name |-> tool_calls[i].name, arg |-> tool_calls[i].arg,
                         raised |-> r.raised, value |-> r.value,
                         doc_before |-> st.doc, doc_after |-> r.doc]]]) :
               r \in run_one(prog, retr, tool_calls[i], later, st)}

\* the orders in which the pool's threads may run n calls
Orders(n) == {o \in [1..n -> 1..n] : \A a, b \in 1..n : o[a] = o[b] => a = b}

\* every outcome [doc, files, drafts, results] of one tool stage
ToolNode(prog, retr, tool_calls, doc, fs, dir) ==
    UNION {run_in_order(prog, retr, tool_calls, o,
               [doc |-> doc, files |-> fs, drafts |-> dir,
                results |-> [i \in 1..Len(tool_calls) |-> NoCall]]) :
           o \in Orders(Len(tool_calls))}

\* the tool_calls ToolNode reads: those of the last message
last_tool_calls(messages) ==
    IF messages = <<>> THEN <<>> ELSE messages[Len(messages)].tool_calls

\* the ToolMessages of a stage; an exception ToolNode handles becomes
\* "Error: repr(e)\n Please fix your mistakes."
tool_messages(results) ==
    [i \in 1..Len(results) |->
        ToolMessage(IF results[i].raised
                    THEN STR_ToolErrorPrefix \o results[i].value \o STR_ToolErrorSuffix
                    ELSE results[i].value,
                    results[i].name)]

some_raised(results) == \E i \in 1..Len(results) : results[i].raised

----------------------------------------------------------------------------
(* The drivers and the graph nodes *)

Streaming == {"stream", "stream_next"}

\* the save check the multi-agent driver makes on every streamed step
RECURSIVE driver_scan_reversed(_, _)
driver_scan_reversed(messages, i) ==
    IF i = 0 THEN FALSE
    ELSE IF is_saved(messages[i]) THEN TRUE
    ELSE driver_scan_reversed(messages, i - 1)

\* where the multi-agent driver is after the body of its for loop has seen a
\* step with these messages; ended: the graph reached END with this step
after_step(messages, ended) ==
    IF driver_scan_reversed(messages, Len(messages)) THEN "finished"
    ELSE IF ended THEN "reprompt"
    ELSE driver

\* state = step, which only the loop inside "while True" does
state_after_step(messages) ==
    IF driver = "stream_next" /\ ~driver_scan_reversed(messages, Len(messages))
    THEN messages
    ELSE state_messages

Init ==
    /\ program \in {"multi", "single"}
    /\ retriever \in IF program = "multi" THEN {"None", "retriever"} ELSE {"None"}
    /\ document_content = STR_InitialDocument
    /\ files = <<>>
    /\ drafts = FALSE
    /\ history = <<>>
    /\ next_agent = "drafting_agent"
    /\ node = "start"
    /\ driver = "start"
    /\ state_messages = <<>>
    /\ steps = 0
    /\ calls = <<>>
    /\ invoked = <<>>
    /\ printed = <<>>
    /\ printed_message_count = 0

\* run_multi_agent_drafter up to the first streamed step (the input itself)
run_multi_agent_drafter ==
    /\ program = "multi"
    /\ driver = "start"
    /\ \E user_input \in UserInputs :
         LET messages == add_messages(<<>>, <<HumanMessage(user_input)>>)
         IN  /\ state_messages' = messages
             /\ history' = messages
             /\ printed' = print_messages(messages, 0, printed).printed
             /\ printed_message_count' = print_messages(messages, 0, printed).count
             /\ driver' = IF driver_scan_reversed(messages, Len(messages))
                          THEN "finished" ELSE "stream"
    /\ next_agent' = "drafting_agent"
    /\ node' = "supervisor"
    /\ steps' = 0
    /\ UNCHANGED <<program, retriever, document_content, files, drafts, calls, invoked>>

\* the "while True" loop of run_multi_agent_drafter: one more request
continue_conversation ==
    /\ program = "multi"
    /\ driver = "reprompt"
    /\ \/ /\ driver' = "finished"
          /\ printed_message_count' = Len(state_messages)
          /\ UNCHANGED <<state_messages, history, node, steps, printed>>
       \/ \E user_input \in UserInputs :
            LET messages == add_messages(<<>>, Append(state_messages, HumanMessage(user_input)))
                shown == print_messages(messages, Len(state_messages), printed)
            IN  /\ state_messages' = messages
                /\ history' = messages
                /\ printed' = shown.printed
                /\ printed_message_count' = shown.count
                /\ driver' = IF driver_scan_reversed(messages, Len(messages))
                             THEN "finished" ELSE "stream_next"
                /\ node' = "supervisor"
                /\ steps' = 0
    /\ UNCHANGED <<program, retriever, document_content, files, drafts, next_agent, calls,
                   invoked>>

\* the supervisor node and its conditional edge, in a run that may take limit
\* supersteps
supervisor_step(limit) ==
    /\ program = "multi"
    /\ driver \in Streaming
    /\ node = "supervisor"
    /\ steps < limit
    /\ LET decided == supervisor(history)
           messages == add_messages(history, history)
       IN  /\ history' = messages
           /\ next_agent' = decided
           /\ node' = IF decided = "end" THEN "END" ELSE decided
           /\ printed' = print_messages(messages, printed_message_count, printed).printed
           /\ printed_message_count' =
                print_messages(messages, printed_message_count, printed).count
           /\ driver' = after_step(messages, decided = "end")
           /\ state_messages' = state_after_step(messages)
    /\ steps' = steps + 1
    /\ UNCHANGED <<program, retriever, document_content, files, drafts, calls, invoked>>

supervisor_node == supervisor_step(RecursionLimit)

\* a worker of the multi-agent graph: one model invocation
worker_step(at, tools, stage, limit) ==
    /\ program = "multi"
    /\ driver \in Streaming
    /\ node = at
    /\ steps < limit
    /\ \E response \in Responses(tools) :
         LET messages == add_messages(history, <<response>>)
         IN  /\ history' = messages
             /\ printed' = print_messages(messages, printed_message_count, printed).printed
             /\ printed_message_count' =
                  print_messages(messages, printed_message_count, printed).count
             /\ driver' = after_step(messages, FALSE)
             /\ state_messages' = state_after_step(messages)
    /\ invoked' = worker_messages(at, document_content, history)
    /\ node' = stage
    /\ steps' = steps + 1
    /\ UNCHANGED <<program, retriever, document_content, files, drafts, next_agent, calls>>

worker(at, tools, stage) == worker_step(at, tools, stage, RecursionLimit)

rag_agent == worker("rag_agent", rag_tools, "rag_tools")

drafting_agent == worker("drafting_agent", drafting_tools, "drafting_tools")

\* a tool stage of the multi-agent graph
tool_stage_step(at, limit) ==
    /\ program = "multi"
    /\ driver \in Streaming
    /\ node = at
    /\ steps < limit
    /\ \E out \in ToolNode(program, retriever, last_tool_calls(history),
                           document_content, files, drafts) :
         /\ document_content' = out.doc
         /\ files' = out.files
         /\ drafts' = out.drafts
         /\ calls' = out.results
         /\ \/ LET messages == add_messages(history, tool_messages(out.results))
               IN  /\ history' = messages
                   /\ printed' =
                        print_messages(messages, printed_message_count, printed).printed
                   /\ printed_message_count' =
                        print_messages(messages, printed_message_count, printed).count
                   /\ driver' = after_step(messages, FALSE)
                   /\ state_messages' = state_after_step(messages)
                   /\ node' = "supervisor"
                   /\ steps' = steps + 1
            \/ /\ some_raised(out.results)
               /\ driver' = "tool_error"
               /\ UNCHANGED <<history, state_messages, node, steps, printed,
                              printed_message_count>>
    /\ UNCHANGED <<program, retriever, next_agent, invoked>>

multi_tool_stage(at) == tool_stage_step(at, RecursionLimit)

rag_tools_node == multi_tool_stage("rag_tools")

drafting_tools_node == multi_tool_stage("drafting_tools")

\* run_document_agent up to the first node
run_document_agent ==
    /\ program = "single"
    /\ driver = "start"
    /\ driver' = "stream"
    /\ node' = "agent"
    /\ steps' = 0
    /\ printed' = drafter_print_messages(history, printed)
    /\ UNCHANGED <<program, retriever, document_content, files, drafts, history,
                   next_agent, state_messages, calls, invoked, printed_message_count>>

\* drafter.agent
agent ==
    /\ program = "single"
    /\ driver = "stream"
    /\ node = "agent"
    /\ steps < RecursionLimit
    /\ \E user_input \in IF history = <<>> THEN {STR_Ready} ELSE DrafterInputs,
          response \in Responses(drafting_tools) :
         LET messages == add_messages(history,
                             history \o <<HumanMessage(user_input), response>>)
         IN  /\ invoked' = all_messages(document_content, history, HumanMessage(user_input))
             /\ history' = messages
             /\ printed' = drafter_print_messages(messages, printed)
    /\ node' = "tools"
    /\ steps' = steps + 1
    /\ UNCHANGED <<program, retriever, document_content, files, drafts, next_agent,
                   driver, state_messages, calls, printed_message_count>>

\* drafter's tools node and its conditional edge should_continue
tools_node ==
    /\ program = "single"
    /\ driver = "stream"
    /\ node = "tools"
    /\ steps < RecursionLimit
    /\ \E out \in ToolNode(program, retriever, last_tool_calls(history),
                           document_content, files, drafts) :
         /\ document_content' = out.doc
         /\ files' = out.files
         /\ drafts' = out.drafts
         /\ calls' = out.results
         /\ \/ LET messages == add_messages(history, tool_messages(out.results))
               IN  /\ history' = messages
                   /\ printed' = drafter_print_messages(messages, printed)
                   /\ node' = IF should_continue(messages) = "end" THEN "END" ELSE "agent"
                   /\ driver' = IF should_continue(messages) = "end" THEN "finished" ELSE "stream"
                   /\ steps' = steps + 1
            \/ /\ some_raised(out.results)
               /\ driver' = "tool_error"
               /\ UNCHANGED <<history, node, steps, printed>>
    /\ UNCHANGED <<program, retriever, next_agent, state_messages, invoked,
                   printed_message_count>>

\* app.stream gives up after RecursionLimit supersteps: GraphRecursionError
\* leaves the driver, which catches nothing
graph_recursion_error ==
    /\ driver \in Streaming
    /\ node # "END"
    /\ steps = RecursionLimit
    /\ driver' = "recursion_error"
    /\ UNCHANGED <<program, retriever, document_content, files, drafts, history,
                   next_agent, node, state_messages, steps, calls, invoked, printed,
                   printed_message_count>>

Next ==
    \/ run_multi_agent_drafter
    \/ supervisor_node
    \/ rag_agent
    \/ rag_tools_node
    \/ drafting_agent
    \/ drafting_tools_node
    \/ run_document_agent
    \/ agent
    \/ tools_node
    \/ graph_recursion_error

Spec == Init /\ [][Next]_vars

\* the same with the "while True" loop of run_multi_agent_drafter enabled
SpecDriver == Init /\ [][Next \/ continue_conversation]_vars

----------------------------------------------------------------------------
(* The router on its own: supervisor and should_continue applied to every   *)
(* history of at most MaxHistory sample messages                             *)

SampleMessages ==
    { HumanMessage(<<"d","r","a","f","t"," ","a"," ","m","e","m","o">>),
      HumanMessage(<<"w","h","a","t"," ","i","s"," ","t","h","e"," ","g","u","i","d","e","l","i","n","e"," ","f","o","r"," ","g","r","e","e","t","i","n","g","s","?">>),
      HumanMessage(<<"L","o","o","k","u","p"," ","m","e","m","o","s">>),
      HumanMessage(<<"H","O","W">>),
      AIMessage(<<"d","o","c","u","m","e","n","t"," ","s","a","v","e","d">>, <<>>),
      ToolMessage(save_document(<<"m","e","m","o">>, <<"H","i">>, <<>>, FALSE, "none").value, "save_document"),
      ToolMessage(save_document(<<"m","e","m","o">>, <<"H","i">>, <<>>, FALSE, "open").value, "save_document"),
      ToolMessage(update_document(<<"H","i">>, <<"H","i">>).value, "update_document"),
      ToolMessage(search_knowledge_base("None", <<"t","i","p","s">>, <<>>), "search_knowledge_base"),
      ToolMessage(search_knowledge_base("retriever", <<"t","i","p","s">>, << <<"S","A","V","E","D"," ","D","O","C","U","M","E","N","T","S">> >>),
                  "search_knowledge_base") }

\* the ids add_messages has given the messages of a history
with_ids(messages) == [i \in 1..Len(messages) |-> [messages[i] EXCEPT !.id = i]]

Histories == {with_ids(h) : h \in UNION {[1..n -> SampleMessages] : n \in 0..MaxHistory}}

InitRouter ==
    /\ program \in {"multi", "single"}
    /\ retriever = "None"
    /\ document_content = STR_InitialDocument
    /\ files = <<>>
    /\ drafts = FALSE
    /\ history \in Histories
    /\ next_agent = "drafting_agent"
    /\ node = IF program = "multi" THEN "supervisor" ELSE "should_continue"
    /\ driver = "stream"
    /\ state_messages = <<>>
    /\ steps = 0
    /\ calls = <<>>
    /\ invoked = <<>>
    /\ printed = <<>>
    /\ printed_message_count = 0

\* the conditional edge of drafter's tools node, taken alone
should_continue_edge ==
    /\ program = "single"
    /\ driver = "stream"
    /\ node = "should_continue"
    /\ node' = IF should_continue(history) = "end" THEN "END" ELSE "agent"
    /\ driver' = IF should_continue(history) = "end" THEN "finished" ELSE "stream"
    /\ UNCHANGED <<program, retriever, document_content, files, drafts, history,
                   next_agent, state_messages, steps, calls, invoked, printed,
                   printed_message_count>>

NextRouter ==
    \/ supervisor_node
    \/ should_continue_edge

SpecRouter == InitRouter /\ [][NextRouter]_vars

----------------------------------------------------------------------------
(* save_document on its own: every sample filename, document, filesystem and *)
(* fault                                                                      *)

SaveFilenames ==
    { <<"m","e","m","o">>,
      <<"m","e","m","o",".","t","x","t">>,
      <<"/","m","e","m","o">>,
      <<"/","m","e","m","o",".","t","x","t">>,
      <<>> }

SaveDocuments ==
    { <<>>,
      <<"H","i">> }

\* the filesystem before the call: empty, or an earlier save in place
SaveFilesystems ==
    { [files |-> <<>>, drafts |-> FALSE],
      [files |-> <<>>, drafts |-> TRUE],
      [files |-> write_file(<<>>, <<"d","r","a","f","t","s","/","m","e","m","o",".","t","x","t">>, <<"o","l","d"," ","t","e","x","t">>), drafts |-> TRUE],
      [files |-> write_file(<<>>, <<"/","m","e","m","o",".","t","x","t">>, <<"o","l","d"," ","t","e","x","t">>), drafts |-> FALSE] }

InitSave ==
    /\ program \in {"multi", "single"}
    /\ retriever = "None"
    /\ document_content \in SaveDocuments
    /\ \E fs \in SaveFilesystems : files = fs.files /\ drafts = fs.drafts
    /\ history = <<>>
    /\ next_agent = "drafting_agent"
    /\ node = "save_document"
    /\ driver = "call"
    /\ state_messages = <<>>
    /\ steps = 0
    /\ calls = <<>>
    /\ invoked = <<>>
    /\ printed = <<>>
    /\ printed_message_count = 0

\* one call of save_document
call_save_document ==
    /\ node = "save_document"
    /\ \E filename \in SaveFilenames, fault \in possible_faults(Faults, drafts) :
         LET r == IF program = "multi"
                  THEN save_document(filename, document_content, files, drafts, fault)
                  ELSE drafter_save_document(filename, document_content, files, drafts, fault)
         IN  /\ document_content' = r.doc
             /\ files' = r.files
             /\ drafts' = r.drafts
             /\ calls' = <<[name |-> "save_document", arg |-> filename,
                            raised |-> r.raised, value |-> r.value,
                            doc_before |-> document_content, doc_after |-> r.doc]>>
             /\ driver' = IF r.raised THEN "tool_error" ELSE "returned"
    /\ node' = "returned"
    /\ UNCHANGED <<program, retriever, history, next_agent, state_messages, steps,
                   invoked, printed, printed_message_count>>

NextSave == call_save_document

SpecSave == InitSave /\ [][NextSave]_vars

----------------------------------------------------------------------------
(* The tools called one after the other: every sequence of at most MaxCalls *)
(* calls of update_document, save_document and search_knowledge_base; calls *)
(* is the log of the sequence                                                *)

\* content arguments of the calls of a sequence; the empty string is one
SeqContents ==
    { <<>>,
      <<"H","i">>,
      <<"B","y","e">> }

\* document_content before the sequence: the module's initial " ", or what an
\* earlier update left
SeqDocuments ==
    { STR_InitialDocument,
      <<"o","l","d"," ","t","e","x","t">> }

InitTools ==
    /\ program \in {"multi", "single"}
    /\ retriever \in IF program = "multi" THEN {"None", "retriever"} ELSE {"None"}
    /\ document_content \in SeqDocuments
    /\ files = <<>>
    /\ drafts = FALSE
    /\ history = <<>>
    /\ next_agent = "drafting_agent"
    /\ node = "tools"
    /\ driver = "call"
    /\ state_messages = <<>>
    /\ steps = 0
    /\ calls = <<>>
    /\ invoked = <<>>
    /\ printed = <<>>
    /\ printed_message_count = 0

\* the log with one more call
logged(name, arg, r) ==
    Append(calls, [name |-> name, arg |-> arg, raised |-> r.raised, value |-> r.value,
                   doc_before |-> document_content, doc_after |-> r.doc])

\* one call of update_document, alone: its second read sees its own write
seq_update_document ==
    /\ driver = "call"
    /\ node = "tools"
    /\ Len(calls) < MaxCalls
    /\ \E content \in SeqContents :
         LET u == IF program = "multi"
                  THEN update_document(content, content)
                  ELSE drafter_update_document(content, content)
         IN  /\ document_content' = u.doc
             /\ calls' = logged("update_document", content,
                                [raised |-> FALSE, value |-> u.value, doc |-> u.doc])
    /\ UNCHANGED <<program, retriever, files, drafts, history, next_agent, node,
                   driver, state_messages, steps, invoked, printed, printed_message_count>>

\* one call of save_document
seq_save_document ==
    /\ driver = "call"
    /\ node = "tools"
    /\ Len(calls) < MaxCalls
    /\ \E fault \in possible_faults(Faults, drafts) :
         LET filename == <<"m","e","m","o">>
             r == IF program = "multi"
                  THEN save_document(filename, document_content, files, drafts, fault)
                  ELSE drafter_save_document(filename, document_content, files, drafts, fault)
         IN  /\ document_content' = r.doc
             /\ files' = r.files
             /\ drafts' = r.drafts
             /\ calls' = logged("save_document", filename, r)
    /\ UNCHANGED <<program, retriever, history, next_agent, node, driver,
                   state_messages, steps, invoked, printed, printed_message_count>>

\* one call of search_knowledge_base (the multi-agent program only)
seq_search_knowledge_base ==
    /\ program = "multi"
    /\ driver = "call"
    /\ node = "tools"
    /\ Len(calls) < MaxCalls
    /\ \E query \in Queries, docs \in IF retriever = "None" THEN {<<>>} ELSE Retrieved :
         calls' = logged("search_knowledge_base", query,
                         [raised |-> FALSE,
                          value |-> search_knowledge_base(retriever, query, docs),
                          doc |-> document_content])
    /\ UNCHANGED <<program, retriever, document_content, files, drafts, history,
                   next_agent, node, driver, state_messages, steps, invoked, printed,
                   printed_message_count>>

NextTools ==
    \/ seq_update_document
    \/ seq_save_document
    \/ seq_search_knowledge_base

SpecTools == InitTools /\ [][NextTools]_vars

----------------------------------------------------------------------------
(* The multi-agent program without a knowledge base (email_etiquette.pdf    *)
(* absent at import), its model taking the drafting path: rag_agent answers *)
(* as it likes, drafting_agent requests update_document and then            *)
(* save_document, and the filesystem takes the write.  The graph runs under *)
(* the library's own recursion limit.                                       *)

\* some update_document call of the session has returned
Updated(messages) ==
    \E i \in 1..Len(messages) :
        messages[i].type = "tool" /\ messages[i].name = "update_document"

InitDraftingPath ==
    /\ program = "multi"
    /\ retriever = "None"
    /\ document_content = STR_InitialDocument
    /\ \E fs \in SaveFilesystems : files = fs.files /\ drafts = fs.drafts
    /\ history = <<>>
    /\ next_agent = "drafting_agent"
    /\ node = "start"
    /\ driver = "start"
    /\ state_messages = <<>>
    /\ steps = 0
    /\ calls = <<>>
    /\ invoked = <<>>
    /\ printed = <<>>
    /\ printed_message_count = 0

path_supervisor == supervisor_step(DefaultRecursionLimit)

path_rag_agent ==
    worker_step("rag_agent", rag_tools, "rag_tools", DefaultRecursionLimit)

path_rag_tools == tool_stage_step("rag_tools", DefaultRecursionLimit)

\* drafting_agent whose model requests update_document while no update has
\* returned, and save_document after
path_drafting_agent ==
    /\ worker_step("drafting_agent", drafting_tools, "drafting_tools", DefaultRecursionLimit)
    /\ Len(history'[Len(history')].tool_calls) = 1
    /\ history'[Len(history')].tool_calls[1].name =
         IF Updated(history) THEN "save_document" ELSE "update_document"

\* the drafting tool stage with no fault of the filesystem
path_drafting_tools ==
    /\ tool_stage_step("drafting_tools", DefaultRecursionLimit)
    /\ driver' # "tool_error"
    /\ \A i \in 1..Len(calls') :
         /\ ~calls'[i].raised
         /\ calls'[i].name = "save_document"
            => startswith(calls'[i].value, STR_DocumentSavedTo)

NextDraftingPath ==
    \/ run_multi_agent_drafter
    \/ path_supervisor
    \/ path_rag_agent
    \/ path_rag_tools
    \/ path_drafting_agent
    \/ path_drafting_tools

\* app.stream runs the next node of the graph as long as there is one
SpecDraftingPath ==
    InitDraftingPath /\ [][NextDraftingPath]_vars /\ WF_vars(NextDraftingPath)

----------------------------------------------------------------------------
(* A tool stage on its own: ToolNode handed an assistant message that      *)
(* carries zero, one or two tool-call requests                              *)

\* the tool_calls of the sample assistant messages a drafting model may send
DraftingCallLists ==
    { <<>>,
      << [name |-> "update_document", arg |-> <<"H","i">>] >>,
      << [name |-> "save_document", arg |-> <<"m","e","m","o">>] >>,
      << [name |-> "update_document", arg |-> <<"H","i">>],
         [name |-> "update_document", arg |-> <<"B","y","e">>] >>,
      << [name |-> "update_document", arg |-> <<"H","i">>],
         [name |-> "save_document", arg |-> <<"m","e","m","o">>] >>,
      << [name |-> "save_document", arg |-> <<"m","e","m","o">>],
         [name |-> "update_document", arg |-> <<"H","i">>] >> }

\* the tool_calls of the sample assistant messages the retrieval model may send
RagCallLists ==
    { <<>>,
      << [name |-> "search_knowledge_base", arg |-> <<"t","i","p","s">>] >>,
      << [name |-> "search_knowledge_base", arg |-> <<"t","i","p","s">>],
         [name |-> "search_knowledge_base", arg |-> <<"r","u","l","e","s">>] >> }

\* the state in which a worker has just answered the first user message with
\* an assistant message that carries tool_calls
InitToolNode ==
    /\ program \in {"multi", "single"}
    /\ retriever \in IF program = "multi" THEN {"None", "retriever"} ELSE {"None"}
    /\ document_content = STR_InitialDocument
    /\ files = <<>>
    /\ drafts = FALSE
    /\ node \in IF program = "multi" THEN {"rag_tools", "drafting_tools"} ELSE {"tools"}
    /\ \E user_input \in IF program = "multi" THEN UserInputs ELSE {STR_Ready},
          content \in AiTexts \cup {<<>>},
          tool_calls \in IF node = "rag_tools" THEN RagCallLists ELSE DraftingCallLists :
         /\ history = with_ids(<<HumanMessage(user_input), AIMessage(content, tool_calls)>>)
         /\ state_messages =
              IF program = "multi" THEN with_ids(<<HumanMessage(user_input)>>) ELSE <<>>
         /\ invoked =
              IF program = "multi"
              THEN worker_messages(IF node = "rag_tools" THEN "rag_agent" ELSE "drafting_agent",
                                   document_content, with_ids(<<HumanMessage(user_input)>>))
              ELSE all_messages(document_content, <<>>, HumanMessage(user_input))
    /\ next_agent = IF node = "rag_tools" THEN "rag_agent" ELSE "drafting_agent"
    /\ driver = "stream"
    /\ steps = IF program = "multi" THEN 2 ELSE 1
    /\ calls = <<>>
    /\ printed = IF program = "multi" THEN lines_from(history, 1) ELSE <<>>
    /\ printed_message_count = IF program = "multi" THEN Len(history) ELSE 0

NextToolNode ==
    \/ rag_tools_node
    \/ drafting_tools_node
    \/ tools_node

SpecToolNode == InitToolNode /\ [][NextToolNode]_vars

----------------------------------------------------------------------------
(* Properties *)

last(messages) == messages[Len(messages)]

\* the text holds both tokens, whatever the case of its letters
HasBothTokens(content) ==
    \E low \in {lower(content)} :
        /\ \E i \in 0..(Len(low) - 5) : SubSeq(low, i + 1, i + 5) = STR_saved
        /\ \E i \in 0..(Len(low) - 8) : SubSeq(low, i + 1, i + 8) = STR_document

SomeToolResultSaved(messages) ==
    \E i \in 1..Len(messages) :
        messages[i].type = "tool" /\ HasBothTokens(messages[i].content)

ToolIndices(messages) == {i \in 1..Len(messages) : messages[i].type = "tool"}

MostRecentTool(messages) ==
    CHOOSE i \in ToolIndices(messages) : \A j \in ToolIndices(messages) : j <= i

MostRecentToolResultSaved(messages) ==
    /\ ToolIndices(messages) # {}
    /\ HasBothTokens(messages[MostRecentTool(messages)].content)

\* a tool-result of a save_document call that wrote the file
SuccessfulSave(message) ==
    /\ message.type = "tool"
    /\ message.name = "save_document"
    /\ startswith(message.content, STR_DocumentSavedTo)

\* a tool-result of a save_document call that failed
FailedSave(message) ==
    /\ message.type = "tool"
    /\ message.name = "save_document"
    /\ startswith(message.content, <<"E","r","r","o","r">>)

HasSuccessfulSave(messages) ==
    \E i \in 1..Len(messages) : SuccessfulSave(messages[i])

\* under SpecRouter: the router has taken its decision on history
Routed ==
    \/ program = "multi" /\ steps = 1
    \/ program = "single" /\ node # "should_continue"

\* the decision it took is the terminal one
Ended == IF program = "multi" THEN next_agent = "end" ELSE node = "END"

\* the decision the router takes on the history as it stands
RoutingDecision ==
    IF program = "multi" THEN supervisor(history) ELSE should_continue(history)

\* C1 (as amended): the termination decision fires if and only if SOME
\* tool-result message of the history holds, case-insensitively, both "saved"
\* and "document"
C1_EndIffSomeToolResultSaved ==
    Routed => (Ended <=> SomeToolResultSaved(history))

\* C1 (as claimed): the termination decision fires if and only if the MOST
\* RECENT tool-result message holds both tokens
C1_EndIffMostRecentToolResultSaved ==
    Routed => (Ended <=> MostRecentToolResultSaved(history))

\* C1 witness: the router ended on a history whose most recent tool-result does
\* not match while an older one does
C1_Witness ==
    /\ Routed
    /\ Ended
    /\ ToolIndices(history) # {}
    /\ ~MostRecentToolResultSaved(history)
    /\ \E i \in ToolIndices(history) :
         i < MostRecentTool(history) /\ HasBothTokens(history[i].content)

\* C2 (as claimed): when the latest message is the tool-result of a failed
\* save_document and no save of the session succeeded, the routing decision is
\* to continue, never end
C2_FailedSaveNeverEnds ==
    (/\ history # <<>>
     /\ FailedSave(last(history))
     /\ ~HasSuccessfulSave(history))
    => RoutingDecision # "end"

\* C3 (as claimed): no call of save_document raises to its caller, and none
\* changes the Document Store
C3_SaveNeverRaises ==
    \A i \in 1..Len(calls) :
        calls[i].name = "save_document"
        => ~calls[i].raised /\ calls[i].doc_after = calls[i].doc_before

\* C4: once history holds a successful save result the routing decision is end,
\* the driver has finished, and no step appends to history, runs a tool or
\* touches the document or the files any more
C4_SavedEndsLoop ==
    /\ [](HasSuccessfulSave(history)
          => RoutingDecision = "end" /\ driver = "finished")
    /\ [][HasSuccessfulSave(history)
          => UNCHANGED <<history, steps, calls, document_content, files, node>>]_vars

\* C4 witness: a tool stage of the multi-agent graph has appended a successful
\* save result and the driver has finished
C4_Witness ==
    /\ program = "multi"
    /\ history # <<>>
    /\ SuccessfulSave(last(history))
    /\ driver = "finished"
    /\ files # <<>>

\* C5: history is append-only: no step shortens it or changes an entry it holds
C5_HistoryAppendOnly ==
    [][/\ Len(history') >= Len(history)
       /\ \A i \in 1..Len(history) : history'[i] = history[i]]_vars

\* C5 witness: the driver's user message, an assistant message and a tool-result
\* have been appended and the supervisor has run on them
C5_Witness ==
    /\ Len(history) >= 3
    /\ history[1].type = "human"
    /\ history[2].type = "ai"
    /\ history[3].type = "tool"
    /\ steps >= 4

NoUserMessage(messages) ==
    \A i \in 1..Len(messages) : messages[i].type # "human"

\* C6 (as amended): on a history with no user message and no tool-result that
\* signals "document saved" the supervisor selects drafting_agent
C6_NoUserNoSaveDrafts ==
    (/\ program = "multi"
     /\ steps = 1
     /\ NoUserMessage(history)
     /\ ~SomeToolResultSaved(history))
    => next_agent = "drafting_agent"

\* C6 (as claimed): on every history with no user message the supervisor
\* selects drafting_agent
C6_NoUserDrafts ==
    (/\ program = "multi"
     /\ steps = 1
     /\ NoUserMessage(history))
    => next_agent = "drafting_agent"

\* C6 witness: the supervisor chose drafting_agent on a non-empty history of
\* assistant and tool-result messages only
C6_Witness ==
    /\ program = "multi"
    /\ steps = 1
    /\ Len(history) >= 2
    /\ NoUserMessage(history)
    /\ ToolIndices(history) # {}
    /\ next_agent = "drafting_agent"

\* the keywords the spec names
SpecKeywords ==
    { <<"s","e","a","r","c","h">>, <<"f","i","n","d">>, <<"w","h","a","t">>, <<"h","o","w">>, <<"g","u","i","d","e","l","i","n","e">>, <<"r","u","l","e">> }

\* the keywords of the amended claim
AmendedKeywords == SpecKeywords \cup { <<"l","o","o","k","u","p">> }

\* the supervisor has decided on a history that ends in a user message and holds
\* no tool-result signalling "document saved"
DecidedOnUserMessage ==
    /\ program = "multi"
    /\ steps = 1
    /\ history # <<>>
    /\ last(history).type = "human"
    /\ ~SomeToolResultSaved(history)

MentionsOneOf(keywords, content) ==
    \E w \in keywords :
        \E i \in 0..(Len(content) - Len(w)) :
            lower(SubSeq(content, i + 1, i + Len(w))) = w

\* C7 (as amended): the supervisor selects rag_agent exactly when the lower-cased
\* user message holds one of search, find, lookup, what, how, guideline, rule,
\* and drafting_agent otherwise
C7_RagIffKeyword ==
    DecidedOnUserMessage
    => /\ next_agent \in {"rag_agent", "drafting_agent"}
       /\ next_agent = "rag_agent"
            <=> MentionsOneOf(AmendedKeywords, last(history).content)

\* C7 (as claimed): the same with the six keywords the spec names
C7_RagIffSpecKeyword ==
    DecidedOnUserMessage
    => /\ next_agent \in {"rag_agent", "drafting_agent"}
       /\ next_agent = "rag_agent"
            <=> MentionsOneOf(SpecKeywords, last(history).content)

\* C7 witness: "what is the guideline for greetings?" was routed to rag_agent
C7_Witness ==
    /\ DecidedOnUserMessage
    /\ last(history).content = <<"w","h","a","t"," ","i","s"," ","t","h","e"," ","g","u","i","d","e","l","i","n","e"," ","f","o","r"," ","g","r","e","e","t","i","n","g","s","?">>
    /\ next_agent = "rag_agent"

\* C8: when the supervisor has decided on a history whose latest message is not
\* a user message and that holds no tool-result signalling "document saved", the
\* graph is at drafting_agent
C8_NonUserTailDrafts ==
    (/\ program = "multi"
     /\ node \in {"rag_agent", "drafting_agent", "END"}
     /\ history # <<>>
     /\ last(history).type # "human"
     /\ ~SomeToolResultSaved(history))
    => node = "drafting_agent" /\ next_agent = "drafting_agent"

\* C8 witness: after a rag_agent turn and its search result the supervisor has
\* passed control to drafting_agent
C8_Witness ==
    /\ program = "multi"
    /\ node = "drafting_agent"
    /\ Len(history) >= 3
    /\ history[Len(history) - 1].type = "ai"
    /\ last(history).type = "tool"
    /\ last(history).name = "search_knowledge_base"

\* the driver of the multi-agent program never enters its "while True" loop
\* (checked under SpecDriver, where the loop is enabled)
NeverReprompts == driver # "reprompt"

\* C9 (as claimed): when a request of the multi-agent driver is over and no save
\* was detected, the driver is re-prompting for the next request
C9_UnsavedRequestReprompts ==
    (/\ program = "multi"
     /\ driver \notin {"start", "stream", "stream_next", "tool_error"}
     /\ ~SomeToolResultSaved(history))
    => driver = "reprompt"

\* the filename without the extension save_document appends
Stem(filename) ==
    IF endswith(filename, STR_txt)
    THEN SubSeq(filename, 1, Len(filename) - Len(STR_txt))
    ELSE filename

\* C10 (as claimed): a successful save_document(n) or save_document(n + ".txt")
\* leaves the file drafts/n.txt holding the Document Store value
C10_SavedUnderDrafts ==
    (/\ node = "returned"
     /\ calls # <<>>
     /\ startswith(calls[1].value, STR_DocumentSavedTo))
    => LET path == STR_drafts \o STR_sep \o Stem(calls[1].arg) \o STR_txt
       IN  /\ path \in DOMAIN files
           /\ files[path] = document_content
           /\ calls[1].value = STR_DocumentSavedTo \o path
\* the calls of the log that are update_document calls
UpdateIndices == {i \in 1..Len(calls) : calls[i].name = "update_document"}

\* C11: after any sequence of tool calls that holds an update_document call,
\* document_content is the argument of the most recent one, the empty string
\* included, and every update_document call leaves exactly its argument behind
C11_LastWriteWins ==
    /\ UpdateIndices # {}
       => document_content =
            calls[CHOOSE i \in UpdateIndices : \A j \in UpdateIndices : j <= i].arg
    /\ \A i \in UpdateIndices : calls[i].doc_after = calls[i].arg

\* C11 witness: update_document(x) with a non-empty x was followed immediately
\* by update_document("") and the document is empty
C11_Witness ==
    \E i \in 1..(Len(calls) - 1) :
        /\ calls[i].name = "update_document"
        /\ calls[i].arg # <<>>
        /\ calls[i + 1].name = "update_document"
        /\ calls[i + 1].arg = <<>>
        /\ i + 1 = Len(calls)
        /\ document_content = <<>>
\* the path a successful save result names
SavedPath(message) ==
    SubSeq(message.content, Len(STR_DocumentSavedTo) + 1, Len(message.content))

\* the session state a search_knowledge_base call has just produced
JustSearched ==
    /\ history # <<>>
    /\ last(history).type = "tool"
    /\ last(history).name = "search_knowledge_base"

\* C12: with the retriever unconfigured every search_knowledge_base result is the
\* fixed string "No knowledge base available.", which does not signal "document
\* saved"; and from the state a search has produced, the session whose model
\* takes the drafting path reaches the end
C12_UnconfiguredSearchThenEnd ==
    /\ [](\A i \in 1..Len(history) :
            (history[i].type = "tool" /\ history[i].name = "search_knowledge_base")
            => /\ history[i].content = STR_NoKnowledgeBase
               /\ ~HasBothTokens(history[i].content)
               /\ supervisor(SubSeq(history, 1, i)) # "end")
    /\ (JustSearched ~> driver = "finished")

\* C12 witness: after a search answered "No knowledge base available." the
\* drafting worker has updated and then saved the document, and the driver has
\* finished on the save result
C12_Witness ==
    /\ retriever = "None"
    /\ \E i \in 1..Len(history) :
         /\ history[i].type = "tool"
         /\ history[i].content = STR_NoKnowledgeBase
         /\ \E j \in (i + 1)..Len(history) :
              /\ history[j].type = "tool"
              /\ history[j].name = "update_document"
              /\ j < Len(history)
    /\ SuccessfulSave(last(history))
    /\ files[SavedPath(last(history))] = document_content
    /\ driver = "finished"
\* C13: a step that changes document_content is a tool stage that ran an
\* update_document call, and it leaves the argument of such a call; every other
\* step (save_document, search_knowledge_base, the supervisor, the workers, the
\* drivers) leaves document_content as it was
C13_OnlyUpdateWrites ==
    [][document_content' # document_content
       => /\ node \in {"drafting_tools", "tools"}
          /\ \E i \in 1..Len(calls') :
               /\ calls'[i].name = "update_document"
               /\ calls'[i].arg = document_content']_vars

\* C13 witness: an update_document call has set the document, and a later tool
\* stage that ran save_document has left it as the update set it
C13_Witness ==
    /\ \E i \in 1..Len(history) : \E j \in (i + 1)..Len(history) :
         /\ history[i].type = "tool" /\ history[i].name = "update_document"
         /\ history[j].type = "tool" /\ history[j].name = "save_document"
    /\ calls # <<>>
    /\ calls[1].name = "save_document"
    /\ calls[1].doc_before = document_content
    /\ calls[1].doc_after = document_content
    /\ document_content \in Contents
\* a step of a worker agent: rag_agent, drafting_agent or drafter's agent
WorkerStep ==
    /\ node \in {"rag_agent", "drafting_agent", "agent"}
    /\ steps' = steps + 1

\* history' is history followed by n more messages
Appends(n) ==
    /\ Len(history') = Len(history) + n
    /\ \A i \in 1..Len(history) : history'[i] = history[i]

\* C14 (as amended): a worker step removes and edits nothing; rag_agent and
\* drafting_agent append exactly one message, the assistant response, and
\* drafter's agent appends exactly two, the user message it has read and then
\* the assistant response
C14_WorkerAppendsResponse ==
    [][WorkerStep
       => IF node = "agent"
          THEN /\ Appends(2)
               /\ history'[Len(history) + 1].type = "human"
               /\ history'[Len(history) + 2].type = "ai"
          ELSE /\ Appends(1)
               /\ history'[Len(history) + 1].type = "ai"]_vars

\* C14 (as claimed): every worker step, in both programs, appends exactly one
\* message, the assistant response
C14_WorkerAppendsOne ==
    [][WorkerStep
       => /\ Appends(1)
          /\ history'[Len(history) + 1].type = "ai"]_vars

\* C14 witness: drafter's agent has run a second time and has appended the line
\* it read from the operator and the response after it
C14_Witness ==
    /\ program = "single"
    /\ node = "tools"
    /\ steps = 3
    /\ Len(history) >= 4
    /\ history[Len(history) - 1].type = "human"
    /\ history[Len(history) - 1].content \in DrafterInputs
    /\ last(history).type = "ai"
\* the system message a drafting worker of the running program builds on document
DraftingPrompt(document) ==
    IF program = "multi"
    THEN STR_DraftingPromptHead \o document \o STR_DraftingPromptTail
    ELSE STR_AgentPromptHead \o document \o STR_AgentPromptTail

\* C15: history never holds a system message, only user, assistant and
\* tool-result messages; every worker step hands its model one system message
\* followed by the history as it stands (and nothing else of type system), and
\* the system message of a drafting worker is built on the document_content of
\* that moment
C15_SystemMessagePerInvocation ==
    /\ [](\A i \in 1..Len(history) : history[i].type \in {"human", "ai", "tool"})
    /\ [][WorkerStep
          => /\ invoked'[1].type = "system"
             /\ SubSeq(invoked', 2, Len(history) + 1) = history
             /\ \A i \in 2..Len(invoked') : invoked'[i].type # "system"
             /\ node \in {"drafting_agent", "agent"}
                => invoked'[1].content = DraftingPrompt(document_content)]_vars

\* C15 witness: drafter's agent has invoked its model after an update_document
\* call changed the document, with a system message built on the new value, and
\* the history holds the update's tool-result and no system message
C15_Witness ==
    /\ program = "single"
    /\ node = "tools"
    /\ steps = 3
    /\ document_content \in Contents
    /\ invoked[1] = SystemMessage(DraftingPrompt(document_content))
    /\ Len(invoked) = Len(history)
    /\ \E i \in 1..Len(history) : history[i].name = "update_document"
\* no history entry is rendered twice: no two printed lines of the same kind
\* render the same entry
NoEntryPrintedTwice ==
    \A i, j \in 1..Len(printed) :
        (i # j /\ printed[i].id = printed[j].id) => printed[i].kind # printed[j].kind

\* every entry of history is rendered, and the lines come in history order
EveryEntryPrintedInOrder ==
    /\ {printed[i].id : i \in 1..Len(printed)} = 1..Len(history)
    /\ \A i, j \in 1..Len(printed) : i < j => printed[i].id <= printed[j].id

\* the part of C16 that is about the multi-agent program alone
MultiPrintsEachEntryOnce ==
    program = "multi" => NoEntryPrintedTwice /\ EveryEntryPrintedInOrder

\* C16 (as claimed): over any run of either program no history entry is printed
\* more than once, and in the multi-agent program every user, assistant and
\* tool-result entry of the streamed history is printed exactly once, in
\* history order
C16_EachEntryPrintedOnce ==
    /\ NoEntryPrintedTwice
    /\ program = "multi" => EveryEntryPrintedInOrder
\* under SpecToolNode: the tool stage has run
StageDone ==
    \/ driver = "tool_error"
    \/ steps = IF program = "multi" THEN 3 ELSE 2

\* the tool executions of the stage were made one at a time in request order,
\* none touching document_content while another ran: each found the document
\* as the one before it left it, and each update_document echoes its own write
OneAtATime ==
    /\ \A i \in 1..(Len(calls) - 1) : calls[i + 1].doc_before = calls[i].doc_after
    /\ \A i \in 1..Len(calls) :
         calls[i].name = "update_document"
         => /\ calls[i].doc_after = calls[i].arg
            /\ calls[i].value \in {update_document(calls[i].arg, calls[i].arg).value,
                                   drafter_update_document(calls[i].arg, calls[i].arg).value}

\* C17 (as claimed): a tool stage performs exactly one tool execution, whatever
\* the number of tool-call requests of the assistant message, and no two tool
\* executions touch document_content at the same time
C17_StrictlySequential ==
    StageDone => Len(calls) = 1 /\ OneAtATime
\* the message without the id add_messages gave it
without_id(message) == [message EXCEPT !.id = 0]

\* histories that end in the same message (same type, same text) as messages:
\* that message alone, and that message after any one sample message
Companions(messages) ==
    IF messages = <<>> THEN {}
    ELSE {with_ids(<<without_id(last(messages))>>)}
         \cup {with_ids(<<m, without_id(last(messages))>>) : m \in SampleMessages}

\* C18 (as amended): the supervisor's decision depends on the history only
\* through its last message and through whether some tool-result of it signals
\* "document saved": every history that agrees with the routed one on both gets
\* the same next_agent
C18_SameTailSameSavedSameRoute ==
    (program = "multi" /\ steps = 1)
    => \A saved \in {SomeToolResultSaved(history)} :
         \A h \in Companions(history) :
           (SomeToolResultSaved(h) <=> saved) => supervisor(h) = next_agent

\* C18 (as claimed): every history with the same last message as the routed one
\* gets the same next_agent, whatever its earlier messages
C18_SameTailSameRoute ==
    (program = "multi" /\ steps = 1)
    => \A h \in Companions(history) : supervisor(h) = next_agent

\* C18 witness: a history of three messages was routed to rag_agent, and a
\* history with another message before the same last one gets rag_agent as well
C18_Witness ==
    /\ program = "multi"
    /\ steps = 1
    /\ Len(history) = 3
    /\ next_agent = "rag_agent"
    /\ \E h \in Companions(history) :
         /\ Len(h) = 2
         /\ h[1].type # history[2].type
         /\ supervisor(h) = "rag_agent"
\* C19 (as claimed): no tool-result of update_document or of
\* search_knowledge_base satisfies the termination predicate, and a session
\* that has ended holds the result of a save_document call that succeeded
C19_EndOnlyAfterSuccessfulSave ==
    /\ \A i \in 1..Len(history) :
         (/\ history[i].type = "tool"
          /\ history[i].name \in {"update_document", "search_knowledge_base"})
         => ~HasBothTokens(history[i].content)
    /\ (driver = "finished" \/ node = "END") => HasSuccessfulSave(history)

\* the user messages of the history
UserMessages(messages) == {i \in 1..Len(messages) : messages[i].type = "human"}

\* C20: in a run of the multi-agent graph rag_agent runs only as the first
\* worker, right after the supervisor's first decision and before any assistant
\* message; every later decision of the supervisor is drafting_agent or end; and
\* the run never holds a user message besides the one it started with, so a
\* drafting_agent response without tool calls brings the turn back to
\* drafting_agent with no new user input
C20_RagOnlyFirst ==
    /\ [](program = "multi" /\ driver \in Streaming
          => UserMessages(history) = {1})
    /\ [][(program = "multi" /\ node = "rag_agent" /\ steps' = steps + 1)
          => /\ steps = 1
             /\ \A i \in 1..Len(history) : history[i].type = "human"]_vars
    /\ [][(program = "multi" /\ node = "supervisor" /\ steps' = steps + 1 /\ steps >= 1)
          => /\ next_agent' \in {"drafting_agent", "end"}
             /\ (last(history).type = "ai" /\ last(history).tool_calls = <<>>)
                => next_agent' = "drafting_agent" /\ node' = "drafting_agent"]_vars

\* C20 witness: drafting_agent ran first and answered without a tool call, its
\* tool stage added nothing, and the supervisor has given the turn to
\* drafting_agent again on the same two messages
C20_Witness ==
    /\ program = "multi"
    /\ node = "drafting_agent"
    /\ steps = 4
    /\ Len(history) = 2
    /\ history[1].type = "human"
    /\ last(history).type = "ai"
    /\ last(history).tool_calls = <<>>
    /\ invoked[1] = drafting_system_prompt(document_content)
    /\ next_agent = "drafting_agent"
=============================================================================
